---- MODULE Spec2Model ----
(***************************************************************************)
(* Model of the veterinary report API: the /full-report handler            *)
(* (app/routers/reports.py), the shared MongoDB holder (app/database.py)   *)
(* and the PDF generator (app/utils/pdf.py).                               *)
(*                                                                         *)
(* Strings of the source written in Arabic script are transliterated to    *)
(* ASCII; a service name is a sequence of letters so that the regular      *)
(* expression match of the clinic pipeline is a real substring search.     *)
(* Amounts, prices and quantities are integers (currency minor units).     *)
(***************************************************************************)
EXTENDS Integers, Sequences, FiniteSets, TLC

VARIABLES
    \* ---- the data source (one tenant database) and the host
    Payment,          \* collection db["Payment"], in storage order
    Sale,             \* collection db["Sale"], in storage order
    fontFile,         \* 'assets/fonts/arabic.ttf' can be opened
    arialFile,        \* a font file called 'Arial' can be opened
    \* ---- app.database.db, the module-level MongoDB instance
    client,           \* db.client: NoClient or the id of a MongoClient
    clients,          \* every MongoClient created so far: id -> "open" | "closed"
    \* ---- one generate_full_report coroutine per request
    pc,               \* where the coroutine is suspended
    request,          \* the ReportRequest
    db_name,          \* local db_name
    database,         \* the MongoClient the local `database` handle belongs to
    payment_report,   \* local payment_report
    clinic_report,    \* local clinic_report
    sales_report,     \* local sales_report
    response,         \* what the handler returned or raised
    queries,          \* number of aggregate() calls the request issued
    rendered,         \* generate_full_report_pdf returned for the request
    raised,           \* the step whose exception ended the request, or "none"
    \* ---- a direct call of one aggregation function
    start_date,       \* argument start_date of the direct call
    end_date,         \* argument end_date of the direct call
    result            \* the function called and the value it returned

vars == <<Payment, Sale, fontFile, arialFile, client, clients, pc, request,
          db_name, database, payment_report, clinic_report, sales_report,
          response, queries, rendered, raised, start_date, end_date, result>>

storeVars == <<Payment, Sale, fontFile, arialFile>>
reqVars == <<client, clients, pc, request, db_name, database, payment_report,
             clinic_report, sales_report, response, queries, rendered, raised>>
callVars == <<start_date, end_date, result>>

None == "None"

\* A local name of generate_full_report that is not bound yet.
Unbound == [unbound |-> TRUE]

\* db.client before any connect: self.client = None
NoClient == 0

(***************************************************************************)
(* Bounds of the model.                                                    *)
(***************************************************************************)
NumReq == 2          \* concurrent requests
MaxPayments == 2     \* documents in the Payment collection
MaxSales == 2        \* documents in the Sale collection
MaxServices == 3     \* services of one clinic visit
MaxLineItems == 6    \* items of one sale

Req == 1..NumReq

(***************************************************************************)
(* Small generic helpers.                                                  *)
(***************************************************************************)
RECURSIVE SumSeq(_)
SumSeq(s) == IF s = <<>> THEN 0 ELSE Head(s) + SumSeq(Tail(s))

RECURSIVE Concat(_)
Concat(ss) == IF ss = <<>> THEN <<>> ELSE Head(ss) \o Concat(Tail(ss))

InsertAt(s, i, x) == SubSeq(s, 1, i - 1) \o <<x>> \o SubSeq(s, i, Len(s))

\* All sequences over S of length at most n.
SeqsUpTo(S, n) == UNION {[1..k -> S] : k \in 0..n}

\* Every ordering of the elements of a sequence.
RECURSIVE Orderings(_)
Orderings(s) ==
    IF s = <<>> THEN {<<>>}
    ELSE UNION {{InsertAt(t, i, s[Len(s)]) : i \in 1..Len(s)}
                : t \in Orderings(SubSeq(s, 1, Len(s) - 1))}

(***************************************************************************)
(* Constants of app/routers/reports.py.                                    *)
(***************************************************************************)
\* The five literal contact names, transliterated.
EXCLUDED_CONTACTS ==
    {"d/ mohamed saydaliyat baish",
     "eiadat al'aneam - al'iidara",
     "muasasat eali mohamed gharawi albaytaria",
     "saydalih eali mohamed gharawi",
     "eiadat alaneam alzabia"}

DATABASE_MAP ==
    [khamis |-> "Elanam-KhamisMushit", baish |-> "Elanam-Baish", zapia |-> "Elanam-Zapia"]

\* DATABASE_MAP.get(key): the mapped name, or None for an unknown key.
DATABASE_MAP_get_default(key) ==
    IF key \in DOMAIN DATABASE_MAP THEN DATABASE_MAP[key] ELSE DATABASE_MAP["khamis"]

DATABASE_MAP_get(key) ==
    IF key \in DOMAIN DATABASE_MAP THEN DATABASE_MAP[key] ELSE None

\* The regex of the clinic pipeline, the letters lam-alif-ra-jim.
LARGE_REGEX == <<"l", "a", "r", "j">>

\* $slice [..., 5]
TOP_PRODUCTS == 5

(***************************************************************************)
(* Aggregation stages, as MongoDB evaluates them.                          *)
(***************************************************************************)
\* "createdAt": {"$gte": start_date, "$lte": end_date}
InRange(doc, start, end) == doc.createdAt >= start /\ doc.createdAt <= end

\* $unwind of an array field: one output document per array element, in
\* document order then array order; a document with an empty array yields none.
Unwind(docs, field) ==
    Concat([i \in 1..Len(docs) |->
              [j \in 1..Len(docs[i][field]) |-> docs[i][field][j]]])

\* $regexMatch with a literal pattern: the pattern occurs somewhere in input.
RegexMatch(input, regex) ==
    \E i \in 1..(Len(input) - Len(regex) + 1) :
        SubSeq(input, i, i + Len(regex) - 1) = regex

(***************************************************************************)
(* _get_payment_report                                                     *)
(***************************************************************************)
PaymentMatchExclusiveEnd(doc, start, end) ==
    doc.createdAt >= start /\ doc.createdAt < end /\ doc.isDeleted = FALSE

PaymentMatch(doc, start, end) ==
    InRange(doc, start, end) /\ doc.isDeleted = FALSE

\* $group by {method, isOutgoing}: one accumulator per key, created when the
\* key is first met, $sum of amount and $sum of 1.
RECURSIVE PaymentGroup(_)
PaymentGroup(docs) ==
    IF docs = <<>> THEN <<>>
    ELSE LET before == PaymentGroup(SubSeq(docs, 1, Len(docs) - 1))
             d == docs[Len(docs)]
             key == [method |-> d.method, isOutgoing |-> d.isOutgoing]
             hit == {i \in 1..Len(before) : before[i]._id = key}
         IN  IF hit = {}
             THEN Append(before, [_id |-> key, totalAmount |-> d.amount,
                                  transactionCount |-> 1])
             ELSE [i \in 1..Len(before) |->
                     IF i \in hit
                     THEN [before[i] EXCEPT !.totalAmount = @ + d.amount,
                                            !.transactionCount = @ + 1]
                     ELSE before[i]]

\* $project: method and isOutgoing lifted out of _id, _id dropped.
PaymentProject(g) ==
    [method |-> g._id.method, isOutgoing |-> g._id.isOutgoing,
     totalAmount |-> g.totalAmount, transactionCount |-> g.transactionCount]

PaymentRows(coll, start, end) ==
    LET groups == PaymentGroup(SelectSeq(coll, LAMBDA d : PaymentMatch(d, start, end)))
    IN  [i \in DOMAIN groups |-> PaymentProject(groups[i])]

\* The values the call may return: $group emits its groups in no specified
\* order, so every ordering of the rows.
_get_payment_report(coll, start, end) == Orderings(PaymentRows(coll, start, end))

(***************************************************************************)
(* _get_clinic_report                                                      *)
(***************************************************************************)
ClinicMatch(doc, start, end) ==
    InRange(doc, start, end) /\ doc.isDeleted = FALSE /\ doc.isResolved = TRUE

\* $addFields on an unwound service: isLarge and serviceRevenue.
ClinicAddFields(svc) ==
    [services |-> svc,
     isLarge |-> RegexMatch(svc.serviceName, LARGE_REGEX),
     serviceRevenue |-> svc.price * svc.quantity]

\* {"$cond": ["$isLarge", "$serviceRevenue", 0]}
CondLarge(line) == IF line.isLarge THEN line.serviceRevenue ELSE 0

\* {"$cond": ["$isLarge", 0, "$serviceRevenue"]}
CondNormalSameBranches(line) == IF line.isLarge THEN line.serviceRevenue ELSE 0

CondNormal(line) == IF line.isLarge THEN 0 ELSE line.serviceRevenue

\* $group with _id None: no output for no input, else one document.
ClinicGroup(lines) ==
    IF lines = <<>> THEN <<>>
    ELSE << [_id |-> None,
             totalRevenue |-> SumSeq([i \in 1..Len(lines) |-> lines[i].serviceRevenue]),
             largeServicesRevenue |-> SumSeq([i \in 1..Len(lines) |-> CondLarge(lines[i])]),
             normalServicesRevenue |-> SumSeq([i \in 1..Len(lines) |-> CondNormal(lines[i])])] >>

_get_clinic_report(coll, start, end) ==
    LET matched == SelectSeq(coll, LAMBDA d : ClinicMatch(d, start, end))
        unwound == Unwind(matched, "services")
        res == ClinicGroup([i \in DOMAIN unwound |-> ClinicAddFields(unwound[i])])
    IN  IF res # <<>> THEN res[1]
        ELSE [totalRevenue |-> 0, largeServicesRevenue |-> 0, normalServicesRevenue |-> 0]

(***************************************************************************)
(* _get_sales_report                                                       *)
(***************************************************************************)
SalesMatchNoExclusion(doc, start, end) ==
    InRange(doc, start, end) /\ doc.isDeleted = FALSE

SalesMatch(doc, start, end) ==
    /\ InRange(doc, start, end)
    /\ doc.contactName \notin EXCLUDED_CONTACTS
    /\ doc.isDeleted = FALSE

\* The document $push appends to topProducts for one unwound item.
PushedProduct(item) ==
    [productName |-> item.productName,
     revenue |-> item.pricePerUnit * item.quantity,
     profit |-> item.profit]

\* $group with _id None over the unwound items.
SalesGroup(items) ==
    IF items = <<>> THEN <<>>
    ELSE << [totalRevenue |-> SumSeq([i \in 1..Len(items) |->
                                         items[i].pricePerUnit * items[i].quantity]),
             totalProfit |-> SumSeq([i \in 1..Len(items) |-> items[i].profit]),
             topProducts |-> [i \in 1..Len(items) |-> PushedProduct(items[i])]] >>

\* $sortArray with sortBy {revenue: -1}: the array in non-increasing revenue.
\* MongoDB leaves the stability of $sortArray unspecified, so elements of
\* equal revenue may come out in any relative order: every such arrangement.
SortArrayIdentity(arr) == {arr}

RECURSIVE SortArray(_)
SortArray(arr) ==
    IF arr = <<>> THEN {<<>>}
    ELSE LET x == arr[Len(arr)]
         IN  UNION {{InsertAt(t, i, x) :
                        i \in {k \in 1..(Len(t) + 1) :
                                 /\ \A j \in 1..(k - 1) : t[j].revenue >= x.revenue
                                 /\ \A j \in k..Len(t) : t[j].revenue <= x.revenue}}
                    : t \in SortArray(SubSeq(arr, 1, Len(arr) - 1))}

\* $slice [array, n]: the first n elements.
Slice(arr, n) == SubSeq(arr, 1, IF Len(arr) < n THEN Len(arr) ELSE n)

\* The values the call may return.
_get_sales_report(coll, start, end) ==
    LET matched == SelectSeq(coll, LAMBDA d : SalesMatch(d, start, end))
        res == SalesGroup(Unwind(matched, "items"))
    IN  IF res # <<>>
        THEN {[totalRevenue |-> res[1].totalRevenue,
               totalProfit |-> res[1].totalProfit,
               topProducts |-> Slice(t, TOP_PRODUCTS)] : t \in SortArray(res[1].topProducts)}
        ELSE {[totalRevenue |-> 0, totalProfit |-> 0, topProducts |-> <<>>]}

(***************************************************************************)
(* Documents and collections the aggregation functions are called on.      *)
(***************************************************************************)
Times == 1..3
Ranges == {<<1, 2>>, <<2, 3>>}          \* <<start_date, end_date>>

PaymentDocs ==
    [createdAt : Times, isDeleted : BOOLEAN, method : {"cash", "network"},
     isOutgoing : BOOLEAN, amount : {50, 100}]

PaymentStores == SeqsUpTo(PaymentDocs, MaxPayments)

\* Services: a name holding the regex, a name holding its letters apart, a
\* name without it.
ServiceKinds ==
    {[serviceName |-> <<"t", "l", "a", "r", "j">>, price |-> 100, quantity |-> 2],
     [serviceName |-> <<"l", "a", "r", "a", "j">>, price |-> 30, quantity |-> 3],
     [serviceName |-> <<"f", "a", "h", "s">>, price |-> 50, quantity |-> 1]}

\* Items: two products of equal revenue and a third of higher revenue.
ItemKinds ==
    {[productName |-> "vaccine", pricePerUnit |-> 10, quantity |-> 2, profit |-> 5],
     [productName |-> "shampoo", pricePerUnit |-> 20, quantity |-> 1, profit |-> 4],
     [productName |-> "collar", pricePerUnit |-> 20, quantity |-> 2, profit |-> 10]}

Visit(t, del, res, svcs) ==
    [createdAt |-> t, isDeleted |-> del, isResolved |-> res,
     contactName |-> "walk-in", services |-> svcs, items |-> <<>>]

Purchase(t, del, contact, its) ==
    [createdAt |-> t, isDeleted |-> del, isResolved |-> TRUE,
     contactName |-> contact, services |-> <<>>, items |-> its]

\* Clinic visits: one visit with many services, or several visits with few.
ClinicStores ==
    {<<Visit(t, del, res, svcs)>> :
        t \in Times, del \in BOOLEAN, res \in BOOLEAN,
        svcs \in SeqsUpTo(ServiceKinds, MaxServices)}
    \cup
    SeqsUpTo({Visit(t, del, res, svcs) :
                 t \in Times, del \in BOOLEAN, res \in BOOLEAN,
                 svcs \in SeqsUpTo(ServiceKinds, 1) \ {<<>>}},
             MaxSales)

Contacts == EXCLUDED_CONTACTS \cup {"walk-in"}

\* Sales: one sale with many items, or several sales with one item each.
SalesStores ==
    {<<Purchase(2, FALSE, "walk-in", its)>> : its \in SeqsUpTo(ItemKinds, MaxLineItems)}
    \cup
    SeqsUpTo({Purchase(t, del, c, <<it>>) :
                 t \in Times, del \in BOOLEAN, c \in Contacts,
                 it \in {i \in ItemKinds : i.productName # "shampoo"}},
             MaxSales)

(***************************************************************************)
(* Direct calls of the three aggregation functions.                        *)
(***************************************************************************)
NoRequests ==
    /\ fontFile = TRUE /\ arialFile = TRUE
    /\ client = NoClient /\ clients = <<>>
    /\ pc = [r \in Req |-> "idle"]
    /\ request = [r \in Req |-> Unbound]
    /\ db_name = [r \in Req |-> None]
    /\ database = [r \in Req |-> NoClient]
    /\ payment_report = [r \in Req |-> <<Unbound>>]
    /\ clinic_report = [r \in Req |-> Unbound]
    /\ sales_report = [r \in Req |-> Unbound]
    /\ response = [r \in Req |-> Unbound]
    /\ queries = [r \in Req |-> 0]
    /\ rendered = [r \in Req |-> FALSE]
    /\ raised = [r \in Req |-> "none"]

NoCall == [fn |-> "none"]

InitPayment ==
    /\ Payment \in PaymentStores /\ Sale = <<>>
    /\ \E rg \in Ranges : start_date = rg[1] /\ end_date = rg[2]
    /\ result = NoCall
    /\ NoRequests

InitClinic ==
    /\ Payment = <<>> /\ Sale \in ClinicStores
    /\ \E rg \in Ranges : start_date = rg[1] /\ end_date = rg[2]
    /\ result = NoCall
    /\ NoRequests

InitSales ==
    /\ Payment = <<>> /\ Sale \in SalesStores
    /\ \E rg \in Ranges : start_date = rg[1] /\ end_date = rg[2]
    /\ result = NoCall
    /\ NoRequests

CallPayment ==
    /\ result = NoCall
    /\ \E v \in _get_payment_report(Payment, start_date, end_date) :
          result' = [fn |-> "payment", value |-> v]
    /\ UNCHANGED <<storeVars, reqVars, start_date, end_date>>

CallClinic ==
    /\ result = NoCall
    /\ result' = [fn |-> "clinic", value |-> _get_clinic_report(Sale, start_date, end_date)]
    /\ UNCHANGED <<storeVars, reqVars, start_date, end_date>>

CallSales ==
    /\ result = NoCall
    /\ \E v \in _get_sales_report(Sale, start_date, end_date) :
          result' = [fn |-> "sales", value |-> v]
    /\ UNCHANGED <<storeVars, reqVars, start_date, end_date>>

SpecPayment == InitPayment /\ [][CallPayment]_vars
SpecClinic == InitClinic /\ [][CallClinic]_vars
SpecSales == InitSales /\ [][CallSales]_vars

(***************************************************************************)
(* app/utils/pdf.py                                                        *)
(***************************************************************************)
Raise(step, message) == [raises |-> TRUE, step |-> step, message |-> message]
Return(value) == [raises |-> FALSE, value |-> value]

\* _setup_arabic_font: register 'assets/fonts/arabic.ttf' as Arabic; when that
\* raises, register the file 'Arial' instead, outside any try.
_setup_arabic_font(font, arial) ==
    IF font THEN Return("assets/fonts/arabic.ttf")
    ELSE IF arial THEN Return("Arial")
    ELSE Raise("font", "Can't open file \"Arial\"")

\* One table row of _add_payment_report.
PaymentTableRow(item) ==
    <<IF item.isOutgoing THEN "sadir" ELSE "warid",
      IF item.method = "network" THEN "shabaka" ELSE "kash",
      item.totalAmount, item.transactionCount>>

\* The flowables generate_full_report_pdf appends, section by section.
Elements(payment_data, clinic_data, sales_data, start, end, name) ==
    [cover |-> <<name, start, end>>,
     payment |-> [i \in DOMAIN payment_data |-> PaymentTableRow(payment_data[i])],
     clinic |-> <<clinic_data.totalRevenue, clinic_data.largeServicesRevenue,
                  clinic_data.normalServicesRevenue>>,
     sales |-> <<sales_data.totalRevenue, sales_data.totalProfit>>,
     products |-> IF sales_data.topProducts # <<>>
                  THEN [i \in DOMAIN sales_data.topProducts |->
                          <<sales_data.topProducts[i].productName,
                            sales_data.topProducts[i].revenue,
                            sales_data.topProducts[i].profit>>]
                  ELSE <<>>]

\* base64.b64encode(b): bytes to bytes.
b64encode(b) == [type |-> "bytes", encoding |-> "base64", of |-> b.of]

\* x.decode('latin1'): bytes have the method, str has not.
decode(x) ==
    IF x.type = "bytes" THEN Return([type |-> "str", encoding |-> x.encoding, of |-> x.of])
    ELSE Raise("decode", "'str' object has no attribute 'decode'")

\* generate_full_report_pdf; build is what doc.build(elements) does: "ok" or
\* the message of the exception it raises.
generate_full_report_pdf(payment_data, clinic_data, sales_data, start, end, name, font, arial, build) ==
    LET registered == _setup_arabic_font(font, arial)
        elements == Elements(payment_data, clinic_data, sales_data, start, end, name)
        pdf_bytes == [type |-> "bytes", encoding |-> "pdf",
                      of |-> [font |-> registered.value, elements |-> elements]]
    IN  IF registered.raises THEN registered
        ELSE IF build # "ok" THEN Raise("build", build)
        ELSE decode(b64encode(pdf_bytes))

(***************************************************************************)
(* app/database.py: the MongoDB instance `db` every request uses.          *)
(***************************************************************************)
\* MongoDB.close: closes db.client when it is set; db.client stays set.
MongoDB_close(cs, c) == IF c # NoClient THEN [cs EXCEPT ![c] = "closed"] ELSE cs

(***************************************************************************)
(* generate_full_report, one coroutine per request.  It runs without       *)
(* interruption between two awaits of an aggregation cursor.               *)
(***************************************************************************)
DbOptions == {"khamis", "baish", "zapia", "other"}
RequestRanges == {<<1, 2>>}             \* <<start_date, end_date>> of a request

\* Messages of the exceptions the driver and the renderer raise.
DriverErrors == {"connection refused", "operation timed out"}
BuildErrors == {"flowable too large on page"}

Awaiting == {"await_payment", "await_clinic", "await_sales"}

ReportRequest(opt, rg) == [db_option |-> opt, start_date |-> rg[1], end_date |-> rg[2]]

HTTPException(status, detail) == [status_code |-> status, detail |-> detail]

\* except Exception as e: HTTPException(500, f"Server error: {str(e)}")
ServerError(message) == HTTPException(500, <<"Server error: ", message>>)

\* The handler ends for request r by raising or returning `resp`; the
\* finally clause closes db.client, whichever request set it.
Finish(r, resp, step) ==
    /\ response' = [response EXCEPT ![r] = resp]
    /\ raised' = [raised EXCEPT ![r] = step]
    /\ clients' = MongoDB_close(clients, client)
    /\ pc' = [pc EXCEPT ![r] = "done"]

\* Request r arrives: requests are numbered in their order of arrival.
Arrives(r) == pc[r] = "idle" /\ \A q \in Req : q < r => pc[q] # "idle"

\* An unknown db_option: HTTPException 400, re-raised as it is.
InvalidOption(r) ==
    /\ Arrives(r)
    /\ \E opt \in DbOptions, rg \in RequestRanges :
          /\ DATABASE_MAP_get(opt) = None
          /\ request' = [request EXCEPT ![r] = ReportRequest(opt, rg)]
    /\ Finish(r, HTTPException(400, <<"Invalid database option">>), "db_option")
    /\ UNCHANGED <<storeVars, callVars, client, db_name, database, payment_report,
                   clinic_report, sales_report, queries, rendered>>

\* A known db_option and MongoClient(uri) raises (the SRV lookup of the
\* mongodb+srv URI fails): db.client keeps its previous value.
ConnectRaises(r) ==
    /\ Arrives(r)
    /\ \E opt \in DbOptions, rg \in RequestRanges :
          /\ DATABASE_MAP_get(opt) # None
          /\ request' = [request EXCEPT ![r] = ReportRequest(opt, rg)]
          /\ db_name' = [db_name EXCEPT ![r] = DATABASE_MAP_get(opt)]
    /\ \E m \in DriverErrors : Finish(r, ServerError(m), "connect")
    /\ UNCHANGED <<storeVars, callVars, client, database, payment_report,
                   clinic_report, sales_report, queries, rendered>>

\* A known db_option: db.connect replaces db.client by a new MongoClient, the
\* payment aggregation is issued and the coroutine awaits its cursor.
Connect(r) ==
    /\ Arrives(r)
    /\ \E opt \in DbOptions, rg \in RequestRanges :
          /\ DATABASE_MAP_get(opt) # None
          /\ request' = [request EXCEPT ![r] = ReportRequest(opt, rg)]
          /\ db_name' = [db_name EXCEPT ![r] = DATABASE_MAP_get(opt)]
    /\ clients' = Append(clients, "open")
    /\ client' = Len(clients) + 1
    /\ database' = [database EXCEPT ![r] = Len(clients) + 1]
    /\ queries' = [queries EXCEPT ![r] = 1]
    /\ pc' = [pc EXCEPT ![r] = "await_payment"]
    /\ UNCHANGED <<storeVars, callVars, payment_report, clinic_report, sales_report,
                   response, rendered, raised>>

\* The awaited aggregation raises: a driver error, or the use of a client
\* that has been closed.
AggregationRaises(r) ==
    /\ pc[r] \in Awaiting
    /\ \E m \in DriverErrors \cup
                (IF clients[database[r]] = "closed"
                 THEN {"Cannot use MongoClient after close"} ELSE {}) :
          Finish(r, ServerError(m),
                 CASE pc[r] = "await_payment" -> "payment"
                   [] pc[r] = "await_clinic" -> "clinic"
                   [] pc[r] = "await_sales" -> "sales")
    /\ UNCHANGED <<storeVars, callVars, client, request, db_name, database,
                   payment_report, clinic_report, sales_report, queries, rendered>>

\* _get_payment_report returns; the clinic aggregation is issued.
PaymentReturns(r) ==
    /\ pc[r] = "await_payment"
    /\ clients[database[r]] = "open"
    /\ \E v \in _get_payment_report(Payment, request[r].start_date, request[r].end_date) :
          payment_report' = [payment_report EXCEPT ![r] = v]
    /\ queries' = [queries EXCEPT ![r] = @ + 1]
    /\ pc' = [pc EXCEPT ![r] = "await_clinic"]
    /\ UNCHANGED <<storeVars, callVars, client, clients, request, db_name, database,
                   clinic_report, sales_report, response, rendered, raised>>

\* _get_clinic_report returns; the sales aggregation is issued.
ClinicReturns(r) ==
    /\ pc[r] = "await_clinic"
    /\ clients[database[r]] = "open"
    /\ clinic_report' = [clinic_report EXCEPT ![r] =
          _get_clinic_report(Sale, request[r].start_date, request[r].end_date)]
    /\ queries' = [queries EXCEPT ![r] = @ + 1]
    /\ pc' = [pc EXCEPT ![r] = "await_sales"]
    /\ UNCHANGED <<storeVars, callVars, client, clients, request, db_name, database,
                   payment_report, sales_report, response, rendered, raised>>

\* _get_sales_report returns; generate_full_report_pdf runs (it awaits
\* nothing), its result is decoded and the handler returns or raises.
SalesReturns(r) ==
    /\ pc[r] = "await_sales"
    /\ clients[database[r]] = "open"
    /\ \E v \in _get_sales_report(Sale, request[r].start_date, request[r].end_date),
          build \in {"ok"} \cup BuildErrors :
          LET pdf_bytes == generate_full_report_pdf(
                               payment_report[r], clinic_report[r], v,
                               request[r].start_date, request[r].end_date, db_name[r],
                               fontFile, arialFile, build)
              decoded == IF pdf_bytes.raises THEN pdf_bytes ELSE decode(pdf_bytes.value)
          IN  /\ sales_report' = [sales_report EXCEPT ![r] = v]
              /\ rendered' = [rendered EXCEPT ![r] = ~pdf_bytes.raises]
              /\ IF decoded.raises
                 THEN Finish(r, ServerError(decoded.message), decoded.step)
                 ELSE Finish(r, [status_code |-> 200,
                                 body |-> [success |-> TRUE,
                                           payment_report |-> payment_report[r],
                                           clinic_report |-> clinic_report[r],
                                           sales_report |-> v,
                                           pdf_bytes |-> decoded.value]],
                             "none")
    /\ UNCHANGED <<storeVars, callVars, client, request, db_name, database,
                   payment_report, clinic_report, queries>>

(***************************************************************************)
(* The service: a tenant database with a few documents, any host fonts,    *)
(* and NumReq requests handled on one event loop.                          *)
(***************************************************************************)
PaymentFixture ==
    <<[createdAt |-> 1, isDeleted |-> FALSE, method |-> "cash", isOutgoing |-> FALSE,
       amount |-> 100],
      [createdAt |-> 2, isDeleted |-> FALSE, method |-> "cash", isOutgoing |-> FALSE,
       amount |-> 50],
      [createdAt |-> 3, isDeleted |-> FALSE, method |-> "network", isOutgoing |-> TRUE,
       amount |-> 50]>>

SaleFixture ==
    <<[createdAt |-> 2, isDeleted |-> FALSE, isResolved |-> TRUE, contactName |-> "walk-in",
       services |-> <<[serviceName |-> <<"t", "l", "a", "r", "j">>, price |-> 100,
                       quantity |-> 2],
                      [serviceName |-> <<"f", "a", "h", "s">>, price |-> 50,
                       quantity |-> 1]>>,
       items |-> <<[productName |-> "collar", pricePerUnit |-> 20, quantity |-> 2,
                    profit |-> 10]>>],
      [createdAt |-> 3, isDeleted |-> FALSE, isResolved |-> FALSE,
       contactName |-> "eiadat alaneam alzabia", services |-> <<>>,
       items |-> <<[productName |-> "vaccine", pricePerUnit |-> 10, quantity |-> 2,
                    profit |-> 5]>>]>>

Init ==
    /\ Payment = PaymentFixture /\ Sale = SaleFixture
    /\ start_date = None /\ end_date = None /\ result = NoCall
    /\ client = NoClient /\ clients = <<>>
    /\ pc = [r \in Req |-> "idle"]
    /\ request = [r \in Req |-> Unbound]
    /\ db_name = [r \in Req |-> None]
    /\ database = [r \in Req |-> NoClient]
    /\ payment_report = [r \in Req |-> <<Unbound>>]
    /\ clinic_report = [r \in Req |-> Unbound]
    /\ sales_report = [r \in Req |-> Unbound]
    /\ response = [r \in Req |-> Unbound]
    /\ queries = [r \in Req |-> 0]
    /\ rendered = [r \in Req |-> FALSE]
    /\ raised = [r \in Req |-> "none"]
    /\ fontFile \in BOOLEAN /\ arialFile \in BOOLEAN

Next ==
    \E r \in Req :
        \/ InvalidOption(r)
        \/ ConnectRaises(r)
        \/ Connect(r)
        \/ AggregationRaises(r)
        \/ PaymentReturns(r)
        \/ ClinicReturns(r)
        \/ SalesReturns(r)

Spec == Init /\ [][Next]_vars

(***************************************************************************)
(* Properties of the aggregation functions.  They are stated over the      *)
(* stored documents by index sets, not by the pipelines above.             *)
(***************************************************************************)
\* Sum of f over the finite set S.
RECURSIVE SumOver(_, _)
SumOver(f, S) ==
    IF S = {} THEN 0
    ELSE LET x == CHOOSE y \in S : TRUE IN f[x] + SumOver(f, S \ {x})

Occurrences(s, x) == Cardinality({i \in DOMAIN s : s[i] = x})

\* Payments counted by the report: created in [start_date, end_date], not deleted.
PaymentsInScope ==
    {i \in DOMAIN Payment :
        /\ start_date <= Payment[i].createdAt
        /\ Payment[i].createdAt <= end_date
        /\ ~Payment[i].isDeleted}

PaymentKey(d) == <<d.method, d.isOutgoing>>

\* C5: the payment report has exactly one row per (method, isOutgoing) pair of
\* the non-deleted payments created in [start, end]; no key twice; a row's
\* totalAmount is the sum of its group's amounts and its transactionCount the
\* group's size; with no such payment the report is the empty sequence.
Thm_C5 ==
    result.fn = "payment" =>
        LET rows == result.value
            keys == {PaymentKey(Payment[i]) : i \in PaymentsInScope}
        IN  /\ Len(rows) = Cardinality(keys)
            /\ {PaymentKey(rows[i]) : i \in DOMAIN rows} = keys
            /\ \A i, j \in DOMAIN rows : i # j => PaymentKey(rows[i]) # PaymentKey(rows[j])
            /\ \A i \in DOMAIN rows :
                  LET group == {m \in PaymentsInScope :
                                   PaymentKey(Payment[m]) = PaymentKey(rows[i])}
                  IN  /\ rows[i].totalAmount = SumOver([m \in group |-> Payment[m].amount], group)
                      /\ rows[i].transactionCount = Cardinality(group)
            /\ (PaymentsInScope = {} => rows = <<>>)

\* A report with one row that adds up two payments of different amounts, the
\* later one created exactly at end_date.
Witness_C5 ==
    /\ result.fn = "payment"
    /\ Len(result.value) = 1
    /\ result.value[1].transactionCount = 2
    /\ result.value[1].totalAmount = 150
    /\ \E i \in DOMAIN Payment : Payment[i].createdAt = end_date

\* Service line-items counted by the clinic report: <<visit, service>> index
\* pairs of resolved, non-deleted visits created in [start_date, end_date].
ClinicLinesInScope ==
    {p \in UNION {{<<i, j>> : j \in DOMAIN Sale[i].services} : i \in DOMAIN Sale} :
        /\ start_date <= Sale[p[1]].createdAt
        /\ Sale[p[1]].createdAt <= end_date
        /\ ~Sale[p[1]].isDeleted
        /\ Sale[p[1]].isResolved}

HasLargeToken(name) ==
    \E k \in 0..(Len(name) - 4) :
        name[k + 1] = "l" /\ name[k + 2] = "a" /\ name[k + 3] = "r" /\ name[k + 4] = "j"

\* C6: largeServicesRevenue + normalServicesRevenue = totalRevenue, each
\* service line-item of a visit in scope adding price * quantity to the large
\* total when its name holds the token and to the normal total otherwise; all
\* three are zero when no visit is in scope.
Thm_C6 ==
    result.fn = "clinic" =>
        LET v == result.value
            svc(p) == Sale[p[1]].services[p[2]]
            rev == [p \in ClinicLinesInScope |-> svc(p).price * svc(p).quantity]
            large == {p \in ClinicLinesInScope : HasLargeToken(svc(p).serviceName)}
        IN  /\ v.largeServicesRevenue = SumOver(rev, large)
            /\ v.normalServicesRevenue = SumOver(rev, ClinicLinesInScope \ large)
            /\ v.largeServicesRevenue + v.normalServicesRevenue = v.totalRevenue
            /\ (ClinicLinesInScope = {} =>
                  v.totalRevenue = 0 /\ v.largeServicesRevenue = 0
                  /\ v.normalServicesRevenue = 0)

\* A report with both large and normal revenue.
Witness_C6 ==
    /\ result.fn = "clinic"
    /\ result.value.largeServicesRevenue > 0
    /\ result.value.normalServicesRevenue > 0

\* Item line-items counted by the sales report: <<sale, item>> index pairs of
\* non-deleted sales created in [start_date, end_date] whose contact is not excluded.
SalesLinesInScope ==
    {p \in UNION {{<<i, j>> : j \in DOMAIN Sale[i].items} : i \in DOMAIN Sale} :
        /\ start_date <= Sale[p[1]].createdAt
        /\ Sale[p[1]].createdAt <= end_date
        /\ ~Sale[p[1]].isDeleted
        /\ Sale[p[1]].contactName \notin EXCLUDED_CONTACTS}

LineProduct(p) ==
    LET it == Sale[p[1]].items[p[2]]
    IN  [productName |-> it.productName, revenue |-> it.pricePerUnit * it.quantity,
         profit |-> it.profit]

TopProductsSound(top) ==
    /\ Len(top) <= 5
    /\ \A i \in 1..(Len(top) - 1) : top[i].revenue >= top[i + 1].revenue
    /\ \A i \in DOMAIN top :
          Occurrences(top, top[i])
              <= Cardinality({p \in SalesLinesInScope : LineProduct(p) = top[i]})
    /\ \A p \in SalesLinesInScope :
          Cardinality({q \in SalesLinesInScope : LineProduct(q) = LineProduct(p)})
              > Occurrences(top, LineProduct(p))
          => \A i \in DOMAIN top : LineProduct(p).revenue <= top[i].revenue

RECURSIVE StableSort(_)
StableSort(arr) ==
    IF arr = <<>> THEN <<>>
    ELSE LET t == StableSort(SubSeq(arr, 1, Len(arr) - 1))
             x == arr[Len(arr)]
             n == Cardinality({j \in DOMAIN t : t[j].revenue >= x.revenue})
         IN  InsertAt(t, n + 1, x)

\* The line-items in scope in encounter order: sale by sale, item by item.
LinesInEncounterOrder ==
    Concat([i \in DOMAIN Sale |->
              [j \in {k \in DOMAIN Sale[i].items : <<i, k>> \in SalesLinesInScope}
                 |-> LineProduct(<<i, j>>)]])

Thm_C8 ==
    result.fn = "sales" =>
        LET v == result.value
            others == SelectSeq(Sale, LAMBDA d : d.contactName \notin EXCLUDED_CONTACTS)
            item(p) == Sale[p[1]].items[p[2]]
        IN  /\ v.totalRevenue =
                  SumOver([p \in SalesLinesInScope |-> item(p).pricePerUnit * item(p).quantity],
                          SalesLinesInScope)
            /\ v.totalProfit =
                  SumOver([p \in SalesLinesInScope |-> item(p).profit], SalesLinesInScope)
            /\ v \in _get_sales_report(others, start_date, end_date)

\* A report over a collection holding a countable sale of an excluded contact
\* beside a sale that counts.
Witness_C8 ==
    /\ result.fn = "sales"
    /\ result.value.totalRevenue > 0
    /\ \E i \in DOMAIN Sale :
          /\ Sale[i].contactName \in EXCLUDED_CONTACTS
          /\ Sale[i].createdAt >= start_date /\ Sale[i].createdAt <= end_date
          /\ ~Sale[i].isDeleted
          /\ Sale[i].items # <<>>

(***************************************************************************)
(* Properties of the request handler.                                      *)
(***************************************************************************)
AllowList == {"khamis", "baish", "zapia"}

Done(r) == pc[r] = "done"

\* C1: a request with a key of the allow-list whose three aggregations and
\* PDF rendering complete without error ends with status 200 and a payload
\* holding success = true, payment_report, clinic_report, sales_report and
\* pdf_bytes, never with status 500.
C1_SuccessOnCleanPath ==
    \A r \in Req :
        (Done(r) /\ request[r].db_option \in AllowList /\ rendered[r]) =>
            /\ response[r].status_code = 200
            /\ response[r].body.success = TRUE
            /\ {"payment_report", "clinic_report", "sales_report", "pdf_bytes"}
                   \subseteq DOMAIN response[r].body

\* C2: a request with a key outside the allow-list ends with status 400 and
\* has opened no connection, issued no aggregation and rendered nothing;
\* every connection that exists was opened by a request with a listed key.
Thm_C2 ==
    /\ \A r \in Req :
          (Done(r) /\ request[r].db_option \notin AllowList) =>
              /\ response[r].status_code = 400
              /\ database[r] = NoClient
              /\ queries[r] = 0
              /\ ~rendered[r]
    /\ \A c \in DOMAIN clients :
          \E r \in Req : database[r] = c /\ request[r].db_option \in AllowList

\* A request with the key "other" has been refused while another request
\* was waiting for an aggregation.
Witness_C2 ==
    \E r, q \in Req :
        /\ Done(r) /\ request[r].db_option = "other"
        /\ response[r].status_code = 400
        /\ pc[q] \in Awaiting

\* C3: a request that opened a connection has released that connection when
\* it is finished, on every exit path.
C3_ConnectionReleased ==
    \A r \in Req :
        (Done(r) /\ database[r] # NoClient) => clients[database[r]] = "closed"

\* C4: the close at the end of one request never closes the connection
\* another request is still querying through.
C4_NoForeignClose ==
    \A r \in Req : pc[r] \in Awaiting => clients[database[r]] = "open"

\* C9: when the Arabic font file is unavailable and the three aggregations
\* succeeded, the font registration is never what makes the request fail.
C9_FontNeverFails ==
    \A r \in Req :
        (Done(r) /\ queries[r] = 3 /\ raised[r] \notin {"payment", "clinic", "sales"}
            /\ ~fontFile) => raised[r] # "font"

\* C10: the error response does not depend on the internal failure: two
\* requests with the same input that fail at the same step get the same
\* response, whatever the message of the exception.
C10_GenericError ==
    \A r, q \in Req :
        (Done(r) /\ Done(q) /\ request[r] = request[q] /\ raised[r] = raised[q]
            /\ response[r].status_code = 500 /\ response[q].status_code = 500)
        => response[r] = response[q]

====
